---- MODULE Spec2Model ----
(***************************************************************************)
(* Model of core/scout_handler.py: the card-scouting handler of Rin-Bot.   *)
(*                                                                         *)
(* Encoding of Python values                                               *)
(*   - uniform(0, 1) draws are integers 0..99, the hundredth the draw      *)
(*     falls in; RATES is written in hundredths accordingly.               *)
(*   - a card (a JSON dict) is a function from field names to values; the  *)
(*     nested dict under "idol" is written with dotted keys "idol.name",   *)
(*     "idol.year", ...                                                    *)
(*   - JSON values are strings; null, 0, false and "" are the strings      *)
(*     Null, Zero, False and EmptyStr.                                     *)
(*   - a result that is either a list or None is PyList(seq) or PyNone.    *)
(***************************************************************************)
EXTENDS Integers, Sequences, FiniteSets, TLC

VARIABLES
    box,            \* self._box
    count,          \* self._count
    guaranteed_sr,  \* self._guaranteed_sr
    name,           \* self._args["name"] (a list of strings)
    pc,             \* position in do_scout / in the function under check
    rarities,       \* _scout_cards: rarities
    nrolls,         \* number of uniform(0, 1) draws taken by _roll_rarity
    tier,           \* _scout_cards: index of the loop over RATES[box].keys()
    fetches,        \* the get_json calls issued, in order
    cards,          \* _scout_cards: results, then the list the handlers hold
    results,        \* self.results
    img,            \* the value do_scout returns
    renders,        \* calls to get_one_img / create_image, in order
    roll,           \* _roll_rarity: roll
    plain,          \* _roll_rarity(False) on roll
    forced,         \* _roll_rarity(True) on roll
    scout,          \* _get_adjusted_scout: scout
    required_count, \* _get_adjusted_scout: required_count
    padded,         \* scout['results'] after the padding loop
    adjusted,       \* the list _get_adjusted_scout returns
    raw             \* the argument of _shrink_results

vars == <<box, count, guaranteed_sr, name, pc, rarities, nrolls, tier, fetches,
          cards, results, img, renders, roll, plain, forced, scout,
          required_count, padded, adjusted, raw>>

scoutVars == <<box, count, guaranteed_sr, name, rarities, nrolls, tier,
               fetches, cards, img, renders>>
rollVars == <<roll, plain, forced>>
adjustVars == <<scout, required_count, padded, adjusted>>

(***************************************************************************)
(* Bounds                                                                  *)
(***************************************************************************)
MaxCount == 2
MaxFetch == 2
MaxPop == 2
MaxRecords == 2
MaxRequired == 3
MaxLen == 3

(***************************************************************************)
(* Python values                                                           *)
(***************************************************************************)
Null == "<None>"
Zero == "<0>"
False == "<False>"
EmptyStr == ""

PyNone == [py |-> "None"]
PyList(s) == [py |-> "list", v |-> s]
IsList(x) == x.py = "list"

Falsy(v) == v \in {Null, Zero, False, EmptyStr}

Put(f, k, v) == [x \in (DOMAIN f) \cup {k} |-> IF x = k THEN v ELSE f[x]]

ListCount(s, x) == Cardinality({i \in DOMAIN s : s[i] = x})

(***************************************************************************)
(* RATES and _roll_rarity                                                  *)
(***************************************************************************)
RATES ==
    [regular |-> [N |-> 95, R |-> 5,  SR |-> 0,  SSR |-> 0, UR |-> 0],
     honour  |-> [N |-> 0,  R |-> 80, SR |-> 15, SSR |-> 4, UR |-> 1],
     coupon  |-> [N |-> 0,  R |-> 0,  SR |-> 80, SSR |-> 0, UR |-> 20]]

Boxes == DOMAIN RATES

\* RATES[box].keys(), in insertion order
RateKeys == <<"N", "R", "SR", "SSR", "UR">>

Draws == 0..99

\* a slip: the flag is ignored
RollRarityNoForce(b, u, force) ==
    IF u < RATES[b]["UR"] THEN "UR"
    ELSE IF u < RATES[b]["SSR"] + RATES[b]["UR"] THEN "SSR"
    ELSE IF u < RATES[b]["SR"] + RATES[b]["SSR"] + RATES[b]["UR"] THEN "SR"
    ELSE IF u < RATES[b]["R"] + RATES[b]["SR"] + RATES[b]["SSR"] + RATES[b]["UR"]
         THEN "R"
    ELSE "N"

RollRarity(b, u, force) ==
    IF u < RATES[b]["UR"] THEN "UR"
    ELSE IF u < RATES[b]["SSR"] + RATES[b]["UR"] THEN "SSR"
    ELSE IF u < RATES[b]["SR"] + RATES[b]["SSR"] + RATES[b]["UR"] THEN "SR"
    ELSE IF u < RATES[b]["R"] + RATES[b]["SR"] + RATES[b]["SSR"] + RATES[b]["UR"]
         THEN (IF force THEN "SR" ELSE "R")
    ELSE "N"

(***************************************************************************)
(* _get_adjusted_scout                                                     *)
(***************************************************************************)
\* The padding loop. picks[k] is the k-th randint(0, current_count - 1) + 1.
RECURSIVE PadResults(_, _, _)
PadResults(res, required, picks) ==
    IF Len(res) < required
    THEN PadResults(Append(res, res[Head(picks)]), required, Tail(picks))
    ELSE res

\* The randint outcomes the padding loop can see on a list of n cards.
PadPicks(n, required) ==
    IF n >= required \/ n = 0 THEN {<<>>}
    ELSE {p \in [1..(required - n) -> 1..(required - 1)] :
             \A k \in DOMAIN p : p[k] <= n + k - 1}

\* roll < 1 / scout['count'], with roll in hundredths
ShouldFlip(u, cnt) == u * cnt < 100

FlipDraws == {0, 50, 99}

\* The flip loop from card_index on. draws[i] is the roll taken at index i.
RECURSIVE FlipFrom(_, _, _, _)
FlipFrom(res, cnt, draws, card_index) ==
    IF card_index > Len(res) - 1 THEN res
    ELSE FlipFrom(IF ShouldFlip(draws[card_index], cnt)
                  THEN [res EXCEPT ![card_index] = res[card_index + 1]]
                  ELSE res,
                  cnt, draws, card_index + 1)

\* a slip: the sweep runs from the right, so a flip feeds the next read
RECURSIVE FlipDown(_, _, _, _)
FlipDown(res, cnt, draws, card_index) ==
    IF card_index < 1 THEN res
    ELSE FlipDown(IF ShouldFlip(draws[card_index], cnt)
                  THEN [res EXCEPT ![card_index] = res[card_index + 1]]
                  ELSE res,
                  cnt, draws, card_index - 1)

FlipPassBackward(res, cnt, draws) == FlipDown(res, cnt, draws, Len(res) - 1)

FlipPass(res, cnt, draws) == FlipFrom(res, cnt, draws, 1)

FlipRolls(n) == IF n <= 1 THEN {<<>>} ELSE [1..(n - 1) -> FlipDraws]

\* a slip: an if where the while is, so one card at most is added
PaddingOnce(sc, required, picks) ==
    IF Len(sc.results) = 0 THEN <<>>
    ELSE IF Len(sc.results) < required
         THEN Append(sc.results, sc.results[Head(picks)])
         ELSE sc.results

\* scout['results'] when the flip loop starts (empty: the early return)
Padding(sc, required, picks) ==
    IF Len(sc.results) = 0 THEN <<>>
    ELSE PadResults(sc.results, required, picks)

GetAdjustedScout(sc, required, picks, draws) ==
    IF Len(sc.results) = 0 THEN <<>>
    ELSE FlipPass(Padding(sc, required, picks), sc.count, draws)

(***************************************************************************)
(* Cards and catalog responses                                             *)
(***************************************************************************)
Card(rarity, id, card_image) ==
    [f \in {"id", "rarity", "attribute", "release_date", "is_promo",
            "card_image", "card_idolized_image",
            "round_card_image", "round_card_idolized_image",
            "idol.name", "idol.year", "idol.main_unit", "idol.sub_unit",
            "idol.school"} |->
        CASE f = "id" -> id
          [] f = "rarity" -> rarity
          [] f = "attribute" -> "Smile"
          [] f = "release_date" -> Null
          [] f = "is_promo" -> False
          [] f = "card_image" -> card_image
          [] f = "card_idolized_image" -> "//i.schoolido.lu/c/idol.png"
          [] f = "round_card_image" -> card_image
          [] f = "round_card_idolized_image" -> "//i.schoolido.lu/c/ridol.png"
          [] f = "idol.name" -> "Hoshizora Rin"
          [] f = "idol.year" -> "First"
          [] f = "idol.main_unit" -> "Muse"
          [] f = "idol.sub_unit" -> "Lily White"
          [] OTHER -> "Otonokizaka"]

\* The cards of one rarity the catalog answers with. N and R cards have a
\* plain image; the others only an idolized one.
Pool(rarity) ==
    IF rarity \in {"N", "R"}
    THEN {Card(rarity, "1", "//i.schoolido.lu/c/1.png")}
    ELSE {Card(rarity, "1", Null)}

SeqsUpTo(S, n) == UNION {[1..k -> S] : k \in 0..n}

\* What session_manager.get_json may answer: any list of at most maxlen
\* cards, whatever the page size asked for, with the catalog's total
\* (0 with an empty list, at least 1 otherwise).
Responses(pool, maxlen) ==
    {[results |-> <<>>, count |-> 0]}
    \cup {[results |-> s, count |-> c] :
             s \in SeqsUpTo(pool, maxlen) \ {<<>>}, c \in 1..MaxPop}

(***************************************************************************)
(* _shrink_results                                                         *)
(***************************************************************************)
keep_fields ==
    {"id", "name", "year", "main_unit", "sub_unit", "rarity", "attribute",
     "release_date", "round_card_image", "round_card_idolized_image"}

\* a slip: the value is kept whatever it is
OrEmptyKeep(val) == val

\* val or ''
OrEmpty(val) == IF Falsy(val) THEN EmptyStr ELSE val

\* result["name"] = result["idol"]["name"], ...
Hoist(result) ==
    Put(Put(Put(Put(result, "name", result["idol.name"]),
                "year", result["idol.year"]),
            "main_unit", result["idol.main_unit"]),
        "sub_unit", result["idol.sub_unit"])

\* the fields left once delete_fields are popped
KeptFields(result) == (DOMAIN result) \cap keep_fields

ShrinkOne(result) ==
    LET hoisted == Hoist(result)
    IN  [key \in KeptFields(hoisted) |-> OrEmpty(hoisted[key])]

ShrinkResults(res) ==
    IF res = <<>> THEN PyNone
    ELSE PyList([i \in DOMAIN res |-> ShrinkOne(res[i])])

(***************************************************************************)
(* ScoutHandler._scout_cards: the rarities                                 *)
(***************************************************************************)
\* a slip: the arm of the name filter is never taken
PlanBranchNoName(g, b, nm) == IF g THEN "guaranteed" ELSE "roll"

\* which arm of the if / elif / else the rarities come from
PlanBranch(g, b, nm) ==
    IF g THEN "guaranteed"
    ELSE IF b = "regular" /\ Len(nm) > 0 THEN "name"
    ELSE "roll"

\* rarities.count("R") + rarities.count("N") == self._count - 1
ForceLast(rs, n) == ListCount(rs, "R") + ListCount(rs, "N") = n - 1

\* a slip: a tally of zero is requested too
NeedsFetchAlways(rs, rarity) == ListCount(rs, rarity) >= 0

\* rarities.count(rarity) > 0
NeedsFetch(rs, rarity) == ListCount(rs, rarity) > 0

\* the query _scout_request sends
ScoutRequest(cnt, rarity, nm) ==
    [rarity |-> rarity, ordering |-> "random", is_promo |-> "False",
     is_special |-> "False", page_size |-> cnt, name |-> nm]

RemoveAt(s, i) == SubSeq(s, 1, i - 1) \o SubSeq(s, i + 1, Len(s))

FirstIndex(s, x) == CHOOSE i \in DOMAIN s : s[i] = x /\ \A j \in 1..(i - 1) : s[j] # x

\* the orders shuffle(results) can leave
RECURSIVE Shuffles(_)
Shuffles(s) ==
    IF s = <<>> THEN {<<>>}
    ELSE UNION {{<<x>> \o t : t \in Shuffles(RemoveAt(s, FirstIndex(s, x)))} :
                   x \in {s[i] : i \in DOMAIN s}}

(***************************************************************************)
(* do_scout                                                                *)
(***************************************************************************)
IdleRoll == roll = 0 /\ plain = "" /\ forced = ""
IdleAdjust ==
    /\ scout = [results |-> <<>>, count |-> 0]
    /\ required_count = 0
    /\ padded = <<>>
    /\ adjusted = <<>>
IdleScout ==
    /\ count = 1 /\ guaranteed_sr = FALSE /\ name = <<>>
    /\ rarities = <<>> /\ nrolls = 0 /\ tier = 1 /\ fetches = <<>>
    /\ cards = <<>> /\ img = PyNone /\ renders = <<>>

Init ==
    /\ box \in Boxes
    /\ count \in 1..MaxCount
    /\ guaranteed_sr \in BOOLEAN
    /\ name \in {<<>>, <<"Rin">>}
    /\ pc = "plan"
    /\ rarities = <<>>
    /\ nrolls = 0
    /\ tier = 1
    /\ fetches = <<>>
    /\ cards = <<>>
    /\ results = PyList(<<>>)
    /\ img = PyNone
    /\ renders = <<>>
    /\ raw = <<>>
    /\ IdleRoll
    /\ IdleAdjust

AfterPlan(rs) == IF Len(rs) = count THEN "fetch" ELSE "plan"

\* for r in range(...): rarities.append(self._roll_rarity())
RollNext ==
    /\ pc = "plan"
    /\ \/ /\ PlanBranch(guaranteed_sr, box, name) = "guaranteed"
          /\ Len(rarities) < count - 1
       \/ /\ PlanBranch(guaranteed_sr, box, name) = "roll"
          /\ Len(rarities) < count
    /\ \E u \in Draws :
          rarities' = Append(rarities, RollRarity(box, u, FALSE))
    /\ nrolls' = nrolls + 1
    /\ pc' = AfterPlan(rarities')
    /\ UNCHANGED <<box, count, guaranteed_sr, name, tier, fetches, cards,
                   results, img, renders, raw, rollVars, adjustVars>>

\* the last roll of a guaranteed scout
RollLast ==
    /\ pc = "plan"
    /\ PlanBranch(guaranteed_sr, box, name) = "guaranteed"
    /\ Len(rarities) = count - 1
    /\ \E u \in Draws :
          rarities' = Append(rarities,
                             RollRarity(box, u, ForceLast(rarities, count)))
    /\ nrolls' = nrolls + 1
    /\ pc' = "fetch"
    /\ UNCHANGED <<box, count, guaranteed_sr, name, tier, fetches, cards,
                   results, img, renders, raw, rollVars, adjustVars>>

\* a normal character is selected: every rarity is "N"
AllNormal ==
    /\ pc = "plan"
    /\ PlanBranch(guaranteed_sr, box, name) = "name"
    /\ rarities' = [r \in 1..count |-> "N"]
    /\ pc' = "fetch"
    /\ UNCHANGED <<box, count, guaranteed_sr, name, nrolls, tier, fetches,
                   cards, results, img, renders, raw, rollVars, adjustVars>>

AfterTier == IF tier = Len(RateKeys) THEN "shuffle" ELSE "fetch"

\* a rarity of the loop that was not rolled: no request
SkipTier ==
    /\ pc = "fetch"
    /\ ~NeedsFetch(rarities, RateKeys[tier])
    /\ tier' = tier + 1
    /\ pc' = AfterTier
    /\ UNCHANGED <<box, count, guaranteed_sr, name, rarities, nrolls, fetches,
                   cards, results, img, renders, raw, rollVars, adjustVars>>

\* scout = await self._scout_request(...); results += _get_adjusted_scout(...)
FetchTier ==
    /\ pc = "fetch"
    /\ NeedsFetch(rarities, RateKeys[tier])
    /\ LET rarity == RateKeys[tier]
           n == ListCount(rarities, rarity)
       IN  \E resp \in Responses(Pool(rarity), MaxFetch) :
           \E picks \in PadPicks(Len(resp.results), n) :
           \E draws \in FlipRolls(Len(Padding(resp, n, picks))) :
              /\ fetches' = Append(fetches,
                                   [params |-> ScoutRequest(n, rarity, name),
                                    returned |-> Len(resp.results)])
              /\ cards' = cards \o GetAdjustedScout(resp, n, picks, draws)
    /\ tier' = tier + 1
    /\ pc' = AfterTier
    /\ UNCHANGED <<box, count, guaranteed_sr, name, rarities, nrolls, results,
                   img, renders, raw, rollVars, adjustVars>>

\* self.results = results; shuffle(results); return results
ShuffleReturn ==
    /\ pc = "shuffle"
    /\ \E s \in Shuffles(cards) :
          /\ cards' = s
          /\ results' = PyList(s)
    /\ pc' = "handle"
    /\ UNCHANGED <<box, count, guaranteed_sr, name, rarities, nrolls, tier,
                   fetches, img, renders, raw, rollVars, adjustVars>>

\* len(cards) != self._count
WrongLength(cs, n) == Len(cs) # n

HandleMultiple ==
    /\ pc = "handle"
    /\ count > 1
    /\ IF WrongLength(cards, count)
       THEN /\ results' = PyList(<<>>)
            /\ img' = PyNone
            /\ renders' = renders
       ELSE /\ results' = results
            /\ renders' = Append(renders, [fn |-> "create_image",
                                           arg |-> Len(cards)])
            /\ img' = [py |-> "ScoutImage", name |-> "composite.png"]
    /\ pc' = "shrink"
    /\ UNCHANGED <<box, count, guaranteed_sr, name, rarities, nrolls, tier,
                   fetches, cards, raw, rollVars, adjustVars>>

\* not card
NoCard(cs) == cs = <<>>

\* the image of a solo scout: card_image unless it is None
SoloUrl(card) ==
    IF card["card_image"] = Null THEN card["card_idolized_image"]
    ELSE card["card_image"]

HandleSolo ==
    /\ pc = "handle"
    /\ ~(count > 1)
    /\ IF NoCard(cards)
       THEN /\ results' = PyList(<<>>)
            /\ img' = PyNone
            /\ renders' = renders
       ELSE /\ results' = results
            /\ renders' = Append(renders, [fn |-> "get_one_img",
                                           arg |-> SoloUrl(cards[1])])
            /\ img' = [py |-> "ScoutImage", name |-> SoloUrl(cards[1])]
    /\ pc' = "shrink"
    /\ UNCHANGED <<box, count, guaranteed_sr, name, rarities, nrolls, tier,
                   fetches, cards, raw, rollVars, adjustVars>>

\* self.results = _shrink_results(self.results); return img
Shrink ==
    /\ pc = "shrink"
    /\ raw' = results.v
    /\ results' = ShrinkResults(results.v)
    /\ pc' = "done"
    /\ UNCHANGED <<scoutVars, rollVars, adjustVars>>

Next ==
    \/ RollNext
    \/ RollLast
    \/ AllNormal
    \/ SkipTier
    \/ FetchTier
    \/ ShuffleReturn
    \/ HandleMultiple
    \/ HandleSolo
    \/ Shrink

Spec == Init /\ [][Next]_vars

(***************************************************************************)
(* _roll_rarity on its own: one draw, rolled with and without the flag     *)
(***************************************************************************)
InitRoll ==
    /\ box \in Boxes
    /\ roll \in Draws
    /\ plain = ""
    /\ forced = ""
    /\ pc = "roll"
    /\ results = PyList(<<>>)
    /\ raw = <<>>
    /\ IdleScout
    /\ IdleAdjust

RollBoth ==
    /\ pc = "roll"
    /\ plain' = RollRarity(box, roll, FALSE)
    /\ forced' = RollRarity(box, roll, TRUE)
    /\ pc' = "rolled"
    /\ UNCHANGED <<scoutVars, results, raw, roll, adjustVars>>

SpecRoll == InitRoll /\ [][RollBoth]_vars

(***************************************************************************)
(* _get_adjusted_scout on its own                                          *)
(***************************************************************************)
AdjustPool ==
    {Card("SR", "1", "//i.schoolido.lu/c/1.png"),
     Card("SR", "2", Null),
     Card("SR", "3", "//i.schoolido.lu/c/3.png")}

InitAdjust ==
    /\ scout \in Responses(AdjustPool, MaxLen)
    /\ required_count \in 1..MaxRequired
    /\ padded = <<>>
    /\ adjusted = <<>>
    /\ pc = "adjust"
    /\ box = "honour"
    /\ results = PyList(<<>>)
    /\ raw = <<>>
    /\ IdleScout
    /\ IdleRoll

Adjust ==
    /\ pc = "adjust"
    /\ \E picks \in PadPicks(Len(scout.results), required_count) :
       \E draws \in FlipRolls(Len(Padding(scout, required_count, picks))) :
          /\ padded' = Padding(scout, required_count, picks)
          /\ adjusted' = GetAdjustedScout(scout, required_count, picks, draws)
    /\ pc' = "adjusted"
    /\ UNCHANGED <<scoutVars, results, raw, rollVars, scout, required_count>>

SpecAdjust == InitAdjust /\ [][Adjust]_vars

(***************************************************************************)
(* _shrink_results on its own                                              *)
(***************************************************************************)
\* Cards as the catalog may send them: null, 0 and "" among the values, a
\* top-level "name" of the card's own, a missing attribute.
ShrinkInputs ==
    {[f \in (IF named THEN {"name"} ELSE {"attribute"})
            \cup {"id", "rarity", "release_date", "is_promo", "card_image",
                  "round_card_image", "round_card_idolized_image",
                  "idol.name", "idol.year", "idol.main_unit",
                  "idol.sub_unit", "idol.school"} |->
        CASE f = "id" -> id
          [] f = "name" -> "Rin (card)"
          [] f = "attribute" -> "Cool"
          [] f = "rarity" -> "SR"
          [] f = "release_date" -> date
          [] f = "is_promo" -> False
          [] f = "card_image" -> Null
          [] f = "round_card_image" -> Null
          [] f = "round_card_idolized_image" -> "//i.schoolido.lu/c/ridol.png"
          [] f = "idol.name" -> "Hoshizora Rin"
          [] f = "idol.year" -> year
          [] f = "idol.main_unit" -> "Muse"
          [] f = "idol.sub_unit" -> sub
          [] OTHER -> "Otonokizaka"] :
     named \in BOOLEAN, id \in {"7", Zero}, date \in {"2015-04-15", Null},
     year \in {"First", EmptyStr}, sub \in {"Lily White", Null}}

InitShrink ==
    /\ \E rs \in SeqsUpTo(ShrinkInputs, MaxRecords) : results = PyList(rs)
    /\ raw = <<>>
    /\ pc = "shrink"
    /\ box = "honour"
    /\ IdleScout
    /\ IdleRoll
    /\ IdleAdjust

SpecShrink == InitShrink /\ [][Shrink]_vars

(***************************************************************************)
(* Properties                                                              *)
(***************************************************************************)
Planned == pc \in {"fetch", "shuffle", "handle", "shrink", "done"}
Fetched == pc \in {"shuffle", "handle", "shrink", "done"}
Rare == {"SR", "SSR", "UR"}
Range(s) == {s[i] : i \in DOMAIN s}

\* the length of self.results, None counting as no results
ResultLen == IF IsList(results) THEN Len(results.v) ELSE 0

RECURSIVE SumPageSizes(_)
SumPageSizes(fs) ==
    IF fs = <<>> THEN 0 ELSE Head(fs).params.page_size + SumPageSizes(Tail(fs))

\* C1: when do_scout has finished, self.results has exactly count records
\* and an image was returned, or it has none and no image was returned.
AllOrNothing ==
    pc = "done" =>
        \/ ResultLen = count /\ img # PyNone
        \/ ResultLen = 0 /\ img = PyNone

\* C2: when the fetch of some rolled rarity came back empty, do_scout returns
\* no image, leaves no results and calls neither renderer.
EmptyFetchFails ==
    (pc = "done" /\ \E i \in DOMAIN fetches : fetches[i].returned = 0) =>
        img = PyNone /\ ResultLen = 0 /\ renders = <<>>

\* C3: with guaranteed_sr set and count >= 2, the rarities _scout_cards rolls
\* hold at least one of SR, SSR, UR.
GuaranteedRare ==
    (Planned /\ guaranteed_sr /\ count >= 2) =>
        \E i \in DOMAIN rarities : rarities[i] \in Rare

\* C4 as stated: with a name filter in the regular box every rarity is N and
\* no roll is made, whatever guaranteed_sr is.
NameFilterAllN ==
    (Planned /\ box = "regular" /\ Len(name) > 0) =>
        /\ Len(rarities) = count
        /\ \A i \in DOMAIN rarities : rarities[i] = "N"
        /\ nrolls = 0

\* C4 as amended: with a name filter in the regular box and guaranteed_sr not
\* set every rarity is N and no roll is made; with guaranteed_sr set the
\* guaranteed arm is taken instead and count rolls are made.
NameFilterAllNUnlessGuaranteed ==
    (Planned /\ box = "regular" /\ Len(name) > 0) =>
        /\ Len(rarities) = count
        /\ ~guaranteed_sr => /\ \A i \in DOMAIN rarities : rarities[i] = "N"
                             /\ nrolls = 0
        /\ guaranteed_sr => nrolls = count

NameFilterWitness ==
    /\ pc = "done" /\ box = "regular" /\ Len(name) > 0 /\ ~guaranteed_sr
    /\ count = 2 /\ rarities = <<"N", "N">> /\ nrolls = 0

\* C5 as stated: on a nonempty fetch whose count is at least 1, the list
\* _get_adjusted_scout returns has exactly required_count cards.
AdjustLength ==
    (pc = "adjusted" /\ Len(scout.results) > 0 /\ scout.count >= 1
        /\ required_count >= 1) =>
        Len(adjusted) = required_count

\* C5 as amended: on a nonempty fetch the list _get_adjusted_scout returns
\* has required_count cards when the fetch held at most that many, and as
\* many cards as the fetch held when it held more (nothing is cut).
AdjustLengthPadded ==
    (pc = "adjusted" /\ Len(scout.results) > 0 /\ scout.count >= 1
        /\ required_count >= 1) =>
        Len(adjusted) = IF Len(scout.results) <= required_count
                        THEN required_count
                        ELSE Len(scout.results)

AdjustLengthWitness ==
    /\ pc = "adjusted" /\ Len(scout.results) = 1 /\ required_count = 3
    /\ Len(adjusted) = 3

\* C6: _roll_rarity(True) never returns R; it returns SR where
\* _roll_rarity(False) returns R on the same draw, and the same rarity as
\* _roll_rarity(False) on every other draw.
ForbidCommon ==
    pc = "rolled" =>
        /\ forced # "R"
        /\ plain = "R" => forced = "SR"
        /\ plain # "R" => forced = plain

ForbidCommonWitness == pc = "rolled" /\ plain = "R" /\ forced = "SR"

\* C7: every record _shrink_results returns for a nonempty list has only
\* keys of keep_fields, and none of its values is None.
ShrunkShape ==
    (pc = "done" /\ raw # <<>>) =>
        /\ IsList(results)
        /\ \A i \in DOMAIN results.v :
              /\ DOMAIN results.v[i] \subseteq keep_fields
              /\ \A key \in DOMAIN results.v[i] : results.v[i][key] # Null

ShrunkShapeWitness ==
    /\ pc = "done" /\ Len(raw) = 2
    /\ \E i \in DOMAIN raw :
          /\ raw[i]["release_date"] = Null
          /\ raw[i]["idol.sub_unit"] = Null
          /\ "is_promo" \in DOMAIN raw[i]
          /\ DOMAIN results.v[i] # DOMAIN raw[i]
          /\ results.v[i]["release_date"] = EmptyStr
          /\ results.v[i]["sub_unit"] = EmptyStr

\* the value a kept field had when the fields were dropped
Source(rec, key) ==
    CASE key = "name" -> rec["idol.name"]
      [] key = "year" -> rec["idol.year"]
      [] key = "main_unit" -> rec["idol.main_unit"]
      [] key = "sub_unit" -> rec["idol.sub_unit"]
      [] OTHER -> rec[key]

\* C8: every value _shrink_results returns equals the input value (the idol's
\* for name, year, main_unit, sub_unit), except that None becomes ''; values
\* such as 0 or False are kept.
ShrunkValues ==
    (pc = "done" /\ raw # <<>>) =>
        \A i \in DOMAIN results.v : \A key \in DOMAIN results.v[i] :
            results.v[i][key] =
                IF Source(raw[i], key) = Null THEN EmptyStr
                ELSE Source(raw[i], key)

\* C9: once the loop over the rarities is over, each rarity that was rolled
\* has exactly one request and each other rarity none, each request asks
\* for as many cards as that rarity was rolled, and the page sizes add up
\* to count.
FetchPlan ==
    Fetched =>
        /\ \A k \in DOMAIN RateKeys :
              Cardinality({i \in DOMAIN fetches :
                              fetches[i].params.rarity = RateKeys[k]})
                  = IF ListCount(rarities, RateKeys[k]) > 0 THEN 1 ELSE 0
        /\ \A i \in DOMAIN fetches :
              fetches[i].params.page_size
                  = ListCount(rarities, fetches[i].params.rarity)
        /\ SumPageSizes(fetches) = count

FetchPlanWitness ==
    /\ pc = "done" /\ count = 2 /\ Len(fetches) = 2
    /\ fetches[1].params.page_size = 1 /\ fetches[2].params.page_size = 1
    /\ ListCount(rarities, "N") = 0

\* C10: the list _get_adjusted_scout returns is as long as the padded list,
\* ends with the same card, holds at each earlier index the padded card of
\* that index or of the next one, and holds only cards of the fetch.
FlipLocality ==
    (pc = "adjusted" /\ Len(scout.results) > 0) =>
        /\ Len(adjusted) = Len(padded)
        /\ adjusted[Len(adjusted)] = padded[Len(padded)]
        /\ \A i \in 1..(Len(padded) - 1) :
              adjusted[i] \in {padded[i], padded[i + 1]}
        /\ Range(adjusted) \subseteq Range(scout.results)

FlipLocalityWitness ==
    /\ pc = "adjusted" /\ Len(padded) = 3
    /\ Len(scout.results) < Len(padded)
    /\ padded[1] # padded[2] /\ padded[2] # padded[3]
    /\ adjusted[1] = padded[2] /\ adjusted[2] = padded[3]

====
